---------------------------- MODULE Spec2Model ----------------------------
(***************************************************************************)
(* Model of controlled-form-hook: the validation combinator engine         *)
(* (src/src/tiny-validationx.ts) and the form state machine of useForm     *)
(* (src/src/index.tsx, second variant, lines 164-366) together with the    *)
(* useSafeState guard (src/src/hooks/useSafeState.tsx).                    *)
(*                                                                         *)
(* How React is modelled:                                                  *)
(*  - every dispatch is followed by a render; the validation effect, whose *)
(*    dependencies are [stableSchema, state.values], is scheduled when the *)
(*    values object of the new state is not the object of the old one and  *)
(*    runs as a step of its own, so further commands may come before it    *)
(*    (calls batched in one handler);                                      *)
(*  - Init is the first render; the handles are used only once the effects *)
(*    of the first commit have run, and only while the form is mounted;    *)
(*  - the props disabledOverride and initialValues are inputs of the       *)
(*    render that reads them, not state; stableSchema is the schema the    *)
(*    session was created with, the same at every render;                  *)
(*  - onSubmit is the environment: it returns a promise that later         *)
(*    resolves or rejects.                                                 *)
(***************************************************************************)
EXTENDS Integers, Sequences, FiniteSets, TLC

(***************************************************************************)
(* JavaScript values.  A value is a record [tag, val]: tag is the result   *)
(* of typeof, val the payload (a sequence of characters for a string, an   *)
(* object identity for an object).                                         *)
(***************************************************************************)
Undefined == [tag |-> "undefined", val |-> 0]

Str(s) == [tag |-> "string", val |-> s]

Bool(b) == [tag |-> "boolean", val |-> b]

Num(n) == [tag |-> "number", val |-> n]

Obj(id) == [tag |-> "object", val |-> id]

\* JavaScript truthiness (the condition of `x ? ... : ...`).
Truthy(x) ==
  CASE x.tag = "undefined" -> FALSE
    [] x.tag = "string" -> Len(x.val) > 0
    [] x.tag = "boolean" -> x.val
    [] x.tag = "number" -> x.val # 0
    [] OTHER -> TRUE

\* obj[key]: a missing property reads as undefined.
Get(obj, key) == IF key \in DOMAIN obj THEN obj[key] ELSE Undefined

\* The object literal {}.
EmptyObject == [k \in {} |-> Undefined]

(***************************************************************************)
(* Error messages are sequences of tokens, so that a template literal      *)
(* `${key} is not present` keeps the interpolated field name apart.        *)
(* NoMessage stands for an errorMessage argument that was not passed.      *)
(***************************************************************************)
NoMessage == <<>>

\* errorMessage ?? dflt
OrDefault(errorMessage, dflt) ==
  IF errorMessage = NoMessage THEN dflt ELSE errorMessage

(***************************************************************************)
(* Validation engine: outcomes                                             *)
(***************************************************************************)
Success(x) == [isFail |-> FALSE, x |-> x]

Fail(x) == [isFail |-> TRUE, x |-> x]

\* What a call that raises a TypeError yields instead of a Result.
TypeError == [threw |-> "TypeError"]

Threw(r) == "threw" \in DOMAIN r

\* Object.entries(fail2).reduce((acc, [key, value]) =>
\*   ({...acc, [key]: [...(acc[key] ?? []), ...value]}), fail1 ?? {})
mergeFailures(fail1, fail2) ==
  [key \in (DOMAIN fail1) \cup (DOMAIN fail2) |->
     IF key \in DOMAIN fail2
       THEN (IF key \in DOMAIN fail1 THEN fail1[key] ELSE <<>>) \o fail2[key]
       ELSE fail1[key]]

\* Mutant of ResultConcat: two failures are merged with the messages of
\* self before those of other.
ResultConcatSelfFirst(self, other) ==
  IF Threw(self) \/ Threw(other) THEN TypeError
  ELSE IF self.isFail
    THEN (IF other.isFail THEN Fail(mergeFailures(self.x, other.x))
                          ELSE Fail(self.x))
    ELSE (IF other.isFail THEN other ELSE Success(self.x))

\* Mutant of ResultConcat: Success.concat returns Success(x) whatever the
\* other outcome is.
ResultConcatSuccessAbsorbs(self, other) ==
  IF Threw(self) \/ Threw(other) THEN TypeError
  ELSE IF self.isFail
    THEN (IF other.isFail THEN Fail(mergeFailures(other.x, self.x))
                          ELSE Fail(self.x))
    ELSE Success(self.x)

\* self.concat(other) of a Result built by Success or Fail.
ResultConcat(self, other) ==
  IF Threw(self) \/ Threw(other) THEN TypeError
  ELSE IF self.isFail
    THEN (IF other.isFail THEN Fail(mergeFailures(other.x, self.x))
                          ELSE Fail(self.x))
    ELSE (IF other.isFail THEN other ELSE Success(self.x))

\* result.fold(f, g) as used by the validation effect:
\* fold(setErrors(dispatch), () => setErrors(dispatch)({})) yields the
\* payload handed to setErrors.
FoldToErrors(result) ==
  IF result.isFail THEN result.x ELSE EmptyObject

(***************************************************************************)
(* Validation engine: built-in rules.  A rule is a record naming the       *)
(* constructor and its parameters; Run is the Runner it wraps.             *)
(***************************************************************************)
Rule(v, n, k, m) == [validator |-> v, num |-> n, key |-> k, errorMessage |-> m]

isPresent(errorMessage) == Rule("isPresent", 0, "", errorMessage)

isTrue(errorMessage) == Rule("isTrue", 0, "", errorMessage)

\* Mutant of maxChars: the bound is off by one, so a string of exactly max
\* characters passes.
maxCharsInclusive(max, errorMessage) == Rule("maxChars", max + 1, "", errorMessage)

maxChars(max, errorMessage) == Rule("maxChars", max, "", errorMessage)

minChars(min, errorMessage) == Rule("minChars", min, "", errorMessage)

minVal(min, errorMessage) == Rule("minVal", min, "", errorMessage)

maxVal(max, errorMessage) == Rule("maxVal", max, "", errorMessage)

equals(comparisonKey, errorMessage) == Rule("equals", 0, comparisonKey, errorMessage)

\* pattern(re, errorMessage) is a Runner, not a Validation: it can be called
\* as pattern(re)(key, x), and has neither run nor concat.  The regular
\* expression is held by its source text under key.
pattern(re, errorMessage) == Rule("pattern", 0, re, errorMessage)

isEmail(errorMessage) == Rule("isEmail", 0, "", errorMessage)

FailWith(key, message) == Fail(key :> <<message>>)

(***************************************************************************)
(* Regular expressions, on strings over the characters a, . and @.         *)
(***************************************************************************)
\* Non-empty runs of a separated by single dots: what both
\* [^<>()[\]\\.,;:\s@"]+(\.[^<>()[\]\\.,;:\s@"]+)* and
\* ([a-zA-Z\-0-9]+\.)*[a-zA-Z\-0-9]+ match among these strings.
IsDotAtoms(s) ==
  /\ Len(s) > 0
  /\ \A i \in 1..Len(s) : s[i] \in {"a", "."}
  /\ s[1] # "."
  /\ s[Len(s)] # "."
  /\ \A i \in 1..(Len(s) - 1) : ~(s[i] = "." /\ s[i + 1] = ".")

\* The expression of isEmail: a dotted local part, @, and a domain of at
\* least two labels whose last has two letters or more.  (Its other
\* alternatives, a quoted local part and a bracketed address, need
\* characters these strings do not have.)
EmailTest(s) ==
  \E i \in 1..Len(s) :
    /\ s[i] = "@"
    /\ LET local == SubSeq(s, 1, i - 1)
           domain == SubSeq(s, i + 1, Len(s))
       IN /\ IsDotAtoms(local)
          /\ IsDotAtoms(domain)
          /\ \E j \in 1..Len(domain) : domain[j] = "."
          /\ Len(domain) >= 2
          /\ domain[Len(domain) - 1] # "."

\* re.test(s)
Test(re, s) ==
  CASE re = "^a+$" -> Len(s) > 0 /\ \A i \in 1..Len(s) : s[i] = "a"
    [] re = "email" -> EmailTest(s)

\* Mutant of RunPattern: a value that is no string is reported with the
\* message given for a bad format.
RunPatternOneMessage(re, errorMessage, key, x) ==
  IF x.tag # "string" \/ ~Test(re, x.val)
    THEN FailWith(key, OrDefault(errorMessage, <<key, " bad format">>))
    ELSE Success(EmptyObject)

\* pattern(re, errorMessage)(key, x)
RunPattern(re, errorMessage, key, x) ==
  IF x.tag # "string" THEN FailWith(key, <<key, " must be a string">>)
  ELSE IF Test(re, x.val) THEN Success(EmptyObject)
  ELSE FailWith(key, OrDefault(errorMessage, <<key, " bad format">>))

\* rule.run(key, x, meta); for pattern, the call of the Runner itself.
Run(rule, key, x, meta) ==
  CASE rule.validator = "isPresent" ->
         IF Truthy(x) THEN Success(EmptyObject)
         ELSE FailWith(key, OrDefault(rule.errorMessage, <<key, " is not present">>))
    [] rule.validator = "isTrue" ->
         IF x = Bool(TRUE) THEN Success(EmptyObject)
         ELSE FailWith(key, OrDefault(rule.errorMessage, <<key, " must be set">>))
    [] rule.validator = "maxChars" ->
         IF x.tag # "string" THEN FailWith(key, <<key, " must be a string">>)
         ELSE IF Len(x.val) < rule.num THEN Success(EmptyObject)
         ELSE FailWith(key, OrDefault(rule.errorMessage,
                <<key, " has to be shorter than ", ToString(rule.num), " chars">>))
    [] rule.validator = "minChars" ->
         IF x.tag # "string" THEN FailWith(key, <<key, " must be a string">>)
         ELSE IF Len(x.val) >= rule.num THEN Success(EmptyObject)
         ELSE FailWith(key, OrDefault(rule.errorMessage,
                <<key, " has to be greater than ", ToString(rule.num), " chars">>))
    [] rule.validator = "minVal" ->
         IF x.tag # "number" THEN FailWith(key, <<key, " must be a number">>)
         ELSE IF x.val >= rule.num THEN Success(EmptyObject)
         ELSE FailWith(key, OrDefault(rule.errorMessage,
                <<key, " has to be greater than ", ToString(rule.num)>>))
    [] rule.validator = "maxVal" ->
         IF x.tag # "number" THEN FailWith(key, <<key, " must be a number">>)
         ELSE IF x.val <= rule.num THEN Success(EmptyObject)
         ELSE FailWith(key, OrDefault(rule.errorMessage,
                <<key, " has to be less than ", ToString(rule.num)>>))
    [] rule.validator = "equals" ->
         IF x = Get(meta, rule.key) THEN Success(EmptyObject)
         ELSE FailWith(key, OrDefault(rule.errorMessage,
                <<rule.key, " does not match">>))
    [] rule.validator = "pattern" ->
         RunPattern(rule.key, rule.errorMessage, key, x)
    [] rule.validator = "isEmail" ->
         RunPattern("email", OrDefault(rule.errorMessage, <<"Bad email format">>),
                    key, x)

\* The run of a member of a rule list, as the reduce of validate reaches it:
\* a Runner put in a list has no run and no concat, and the call throws.
RunMember(rule, key, x, meta) ==
  IF rule.validator = "pattern" THEN TypeError ELSE Run(rule, key, x, meta)

(***************************************************************************)
(* Validation engine: validate.  A schema is a sequence of                 *)
(* <<field name, rule list>> pairs in Object.keys order.                   *)
(***************************************************************************)
\* schema[key].reduce(concat).run(key, x, meta) over the first n rules:
\* concat(f, g) = g.concat(f), and g.concat(f) runs g, then f, and
\* concatenates g's result with f's.  reduce of an empty list throws.
RECURSIVE RunReduced(_, _, _, _, _)
RunReduced(rules, n, key, x, meta) ==
  IF n = 0 THEN TypeError
  ELSE IF n = 1 THEN RunMember(rules[1], key, x, meta)
  ELSE ResultConcat(RunMember(rules[n], key, x, meta),
                    RunReduced(rules, n - 1, key, x, meta))

\* Mutant of ValidateFields: the runner is called without the record,
\* run(key, obj[key]), so a rule has no meta to read.
RECURSIVE ValidateFieldsNoMeta(_, _, _)
ValidateFieldsNoMeta(schema, n, obj) ==
  IF n = 0 THEN Success(obj)
  ELSE ResultConcat(ValidateFieldsNoMeta(schema, n - 1, obj),
                    RunReduced(schema[n][2], Len(schema[n][2]), schema[n][1],
                               Get(obj, schema[n][1]), EmptyObject))

\* Object.keys(schema).reduce((acc, key) => acc.concat(...), Success(obj))
\* over the first n fields of the schema.
RECURSIVE ValidateFields(_, _, _)
ValidateFields(schema, n, obj) ==
  IF n = 0 THEN Success(obj)
  ELSE ResultConcat(ValidateFields(schema, n - 1, obj),
                    RunReduced(schema[n][2], Len(schema[n][2]), schema[n][1],
                               Get(obj, schema[n][1]), obj))

\* Mutant of validate: only the first field of the schema is validated.
validateFirstField(schema, obj) == ValidateFields(schema, 1, obj)

\* Mutant of validate: a strict validate, which also reports every key of
\* the record that the schema does not declare.
validateStrict(schema, obj) ==
  LET undeclared == DOMAIN obj \ {schema[i][1] : i \in 1..Len(schema)}
  IN ResultConcat(ValidateFields(schema, Len(schema), obj),
                  IF undeclared = {} THEN Success(obj)
                  ELSE Fail([key \in undeclared |-> << <<key, " is not declared">> >>]))

validate(schema, obj) == ValidateFields(schema, Len(schema), obj)

(***************************************************************************)
(* Form fixtures: the schema, records, change targets and error mappings   *)
(* the commands draw their inputs from.                                    *)
(***************************************************************************)
\* Longest text typed into the name field.
MaxNameLen == 2

\* Most submit actions in flight at once.
MaxPending == 2

RECURSIVE Chars(_)
Chars(n) == IF n = 0 THEN <<>> ELSE Chars(n - 1) \o <<"a">>

FormSchema ==
  << <<"name", <<isPresent(NoMessage), minChars(2, NoMessage)>> >>,
     <<"tos", <<isTrue(NoMessage)>> >> >>

SchemaKeys(schema) == {schema[i][1] : i \in 1..Len(schema)}

\* Records a caller passes to setValues and to reset.
BlankValues == [name |-> Str(<<>>), tos |-> Bool(FALSE)]

FilledValues == [name |-> Str(Chars(2)), tos |-> Bool(TRUE)]

Records == {BlankValues, FilledValues}

\* The initialValues prop: a record, or a thunk that returns it.  A thunk
\* (like an object literal written inline in the component) yields a new
\* object at every evaluation.
InitialValues == BlankValues

\* Targets of change events: text inputs, checkboxes and a custom target
\* (a date picker, with an opaque value and no checked property).
TextTarget(name, s) ==
  [name |-> name, type |-> "text", value |-> Str(s), checked |-> Bool(FALSE)]

CheckboxTarget(name, b) ==
  [name |-> name, type |-> "checkbox", value |-> Str(<<"o", "n">>), checked |-> Bool(b)]

CustomTarget(name, v) ==
  [name |-> name, type |-> "datepicker", value |-> v, checked |-> Undefined]

Targets ==
  {TextTarget("name", Chars(n)) : n \in 0..MaxNameLen}
    \cup {CheckboxTarget("tos", b) : b \in BOOLEAN}
    \cup {CustomTarget("todaysDate", Obj(1))}

\* The form with a repeated password: its schema, its initial values and
\* the texts typed into its two fields.
PasswordSchema ==
  << <<"password", <<isPresent(NoMessage), maxChars(30, NoMessage)>> >>,
     <<"password2", <<equals("password", NoMessage)>> >> >>

PasswordValues == [password |-> Str(<<>>), password2 |-> Str(<<>>)]

PasswordTargets ==
  {TextTarget(name, Chars(n)) :
     name \in {"password", "password2"}, n \in 0..MaxNameLen}

\* The targets of the form and one more, created with the reserved name
\* 'override' (createChangeEvent({name: 'override', ...})).
VisitTargets == Targets \cup {CustomTarget("override", Bool(TRUE))}

\* Mappings a caller passes to setErrors.
ErrorMappings ==
  {EmptyObject, ("name" :> << <<"taken">> >>) @@ ("server" :> << <<"down">> >>)}

\* Extra arguments a caller passes to handleSubmit after the event.
ExtraArgs == {<<>>, <<"extra">>}

(***************************************************************************)
(* Form state machine                                                      *)
(***************************************************************************)
VARIABLES
  state,          \* FormState: [values, errors, visited, hasErrors]
  isSubmitting,   \* the flag held by useSafeState
  cancelRef,      \* cancelRef.current of useSafeState
  phase,          \* "rendered" (first render, effects not yet run),
                  \* "mounted" or "unmounted"
  effectPending,  \* the validation effect is scheduled: state.values is not
                  \* the object the effect last ran with
  pendingSubmits, \* number of onSubmit promises not yet settled
  lastEvent,      \* what handleSubmit last did towards its collaborators:
                  \* called onSubmit (with which arguments, and the
                  \* submitting flag as set at the call), returned null, or
                  \* passed on the settlement of the onSubmit promise
  stableSchema,   \* the stableSchema prop: the same schema at every render
  trial           \* a direct call of the validation engine: its arguments
                  \* and, once made, its result (NoTrial in a form session)

vars == <<state, isSubmitting, cancelRef, phase, effectPending,
          pendingSubmits, lastEvent, stableSchema, trial>>

\* The engine is not called directly.
NoTrial == [op |-> "none"]

(***************************************************************************)
(* The values record is an object [ref, data]: ref is its identity (0 is   *)
(* the object passed as initialValues), data its properties.  Identity     *)
(* decides whether immer sees an assignment as a change and whether the    *)
(* dependency list [stableSchema, state.values] of the effect changed.     *)
(***************************************************************************)
Object(ref, data) == [ref |-> ref, data |-> data]

\* The identity of an object created now: one no live reference holds.
FreshRef(held) == IF held = 1 THEN 2 ELSE 1

\* values instanceof Function ? values() : values
Evaluate(initialValues, isThunk, held) ==
  IF isThunk THEN Object(FreshRef(held), initialValues)
             ELSE Object(0, initialValues)

getFormState(initialValues, isThunk) ==
  [values |-> Evaluate(initialValues, isThunk, 0),
   errors |-> EmptyObject,
   visited |-> EmptyObject,
   hasErrors |-> FALSE]

\* Mutant of ChangedValue: a checkbox stores its value, not its checked.
ChangedValueNoCheckbox(target) == target.value

\* The value a change event stores.
ChangedValue(target) ==
  IF target.type = "checkbox" THEN target.checked ELSE target.value

\* Mutant of AssignValue: the values object is written in place and keeps
\* its identity.
AssignValueInPlace(values, name, v) ==
  Object(values.ref, (name :> v) @@ values.data)

\* draft.values[name] = v under immer: assigning the value the property
\* already holds leaves the values object untouched (same identity).
AssignValue(values, name, v) ==
  IF name \in DOMAIN values.data /\ values.data[name] = v
    THEN values
    ELSE Object(FreshRef(values.ref), (name :> v) @@ values.data)

\* Mutant of reducer: the reset action as in the first variant of the
\* reducer, which leaves hasErrors as it was.
reducerStaleHasErrors(s, action) ==
  CASE action.type = "set_values" ->
         [s EXCEPT !.values = action.payload]
    [] action.type = "set_errors" ->
         [s EXCEPT !.errors = action.payload,
                   !.hasErrors = (DOMAIN action.payload # {})]
    [] action.type = "reset" ->
         [s EXCEPT !.values = action.payload,
                   !.errors = EmptyObject,
                   !.visited = EmptyObject]
    [] action.type = "handle_change" ->
         [s EXCEPT !.values = AssignValue(s.values, action.payload.name,
                                          ChangedValue(action.payload)),
                   !.visited = (action.payload.name :> Bool(TRUE)) @@ s.visited]

\* Mutant of reducer: the reset action merges the record into the values
\* held instead of replacing them.
reducerResetMerges(s, action) ==
  CASE action.type = "set_values" ->
         [s EXCEPT !.values = action.payload]
    [] action.type = "set_errors" ->
         [s EXCEPT !.errors = action.payload,
                   !.hasErrors = (DOMAIN action.payload # {})]
    [] action.type = "reset" ->
         [values |-> Object(action.payload.ref, action.payload.data @@ s.values.data),
          errors |-> EmptyObject,
          visited |-> EmptyObject,
          hasErrors |-> FALSE]
    [] action.type = "handle_change" ->
         [s EXCEPT !.values = AssignValue(s.values, action.payload.name,
                                          ChangedValue(action.payload)),
                   !.visited = (action.payload.name :> Bool(TRUE)) @@ s.visited]

\* Mutant of reducer: replacing the values also forgets which fields were
\* visited.
reducerSetValuesClearsVisited(s, action) ==
  CASE action.type = "set_values" ->
         [s EXCEPT !.values = action.payload, !.visited = EmptyObject]
    [] action.type = "set_errors" ->
         [s EXCEPT !.errors = action.payload,
                   !.hasErrors = (DOMAIN action.payload # {})]
    [] action.type = "reset" ->
         [values |-> action.payload,
          errors |-> EmptyObject,
          visited |-> EmptyObject,
          hasErrors |-> FALSE]
    [] action.type = "handle_change" ->
         [s EXCEPT !.values = AssignValue(s.values, action.payload.name,
                                          ChangedValue(action.payload)),
                   !.visited = (action.payload.name :> Bool(TRUE)) @@ s.visited]

\* Mutant of reducer: replacing the values also empties the errors, as a
\* reset does.
reducerSetValuesClearsErrors(s, action) ==
  CASE action.type = "set_values" ->
         [s EXCEPT !.values = action.payload,
                   !.errors = EmptyObject,
                   !.hasErrors = FALSE]
    [] action.type = "set_errors" ->
         [s EXCEPT !.errors = action.payload,
                   !.hasErrors = (DOMAIN action.payload # {})]
    [] action.type = "reset" ->
         [values |-> action.payload,
          errors |-> EmptyObject,
          visited |-> EmptyObject,
          hasErrors |-> FALSE]
    [] action.type = "handle_change" ->
         [s EXCEPT !.values = AssignValue(s.values, action.payload.name,
                                          ChangedValue(action.payload)),
                   !.visited = (action.payload.name :> Bool(TRUE)) @@ s.visited]

\* Mutant of reducer: the given errors are merged into the errors held
\* instead of replacing them.
reducerErrorsMerge(s, action) ==
  CASE action.type = "set_values" ->
         [s EXCEPT !.values = action.payload]
    [] action.type = "set_errors" ->
         [s EXCEPT !.errors = action.payload @@ s.errors,
                   !.hasErrors = (DOMAIN (action.payload @@ s.errors) # {})]
    [] action.type = "reset" ->
         [values |-> action.payload,
          errors |-> EmptyObject,
          visited |-> EmptyObject,
          hasErrors |-> FALSE]
    [] action.type = "handle_change" ->
         [s EXCEPT !.values = AssignValue(s.values, action.payload.name,
                                          ChangedValue(action.payload)),
                   !.visited = (action.payload.name :> Bool(TRUE)) @@ s.visited]

reducer(s, action) ==
  CASE action.type = "set_values" ->
         [s EXCEPT !.values = action.payload]
    [] action.type = "set_errors" ->
         [s EXCEPT !.errors = action.payload,
                   !.hasErrors = (DOMAIN action.payload # {})]
    [] action.type = "reset" ->
         [values |-> action.payload,
          errors |-> EmptyObject,
          visited |-> EmptyObject,
          hasErrors |-> FALSE]
    [] action.type = "handle_change" ->
         [s EXCEPT !.values = AssignValue(s.values, action.payload.name,
                                          ChangedValue(action.payload)),
                   !.visited = (action.payload.name :> Bool(TRUE)) @@ s.visited]

\* Mutant of DepsChanged: the dependency list is [stableSchema] alone, so a
\* new values object does not schedule the effect.
DepsOnlySchema(old, new) == FALSE

\* useEffect(..., [stableSchema, state.values]): the effect is scheduled
\* when the values object of the new state is not the one of the old state.
DepsChanged(old, new) == new.values.ref # old.values.ref

\* Mutant of safeSetState: the plain setter of useState, which writes
\* whatever cancelRef holds.
unsafeSetState(current, cancelled, newState) == newState

\* safeSetState(newState): dropped once cancelRef.current is set.
safeSetState(current, cancelled, newState) ==
  IF ~cancelled THEN newState ELSE current

\* Mutant of isDisabled: the submitting flag is left out.
isDisabledIgnoresSubmitting(disabledOverride) ==
  disabledOverride \/ state.hasErrors

\* isDisabled as rendered with the prop disabledOverride.
isDisabled(disabledOverride) ==
  isSubmitting \/ disabledOverride \/ state.hasErrors

\* Mutant of isFieldVisited: the reserved name 'override' is not consulted.
isFieldVisitedOwnOnly(fieldName) == Truthy(Get(state.visited, fieldName))

isFieldVisited(fieldName) ==
  Truthy(Get(state.visited, "override")) \/ Truthy(Get(state.visited, fieldName))

Event(kind, values, args, submitting) ==
  [kind |-> kind, values |-> values, args |-> args, submitting |-> submitting]

NoEvent == Event("none", EmptyObject, <<>>, FALSE)

\* onSubmit(state.values, ...args) was called.
Called(values, args, submitting) == Event("called", values, args, submitting)

\* The promise returned by handleSubmit settled: resolved with null,
\* resolved with the result of onSubmit, or rejected.
Returned(how) == Event(how, EmptyObject, <<>>, FALSE)

Init ==
  /\ \E isThunk \in BOOLEAN : state = getFormState(InitialValues, isThunk)
  /\ isSubmitting = FALSE
  /\ cancelRef = FALSE
  /\ phase = "rendered"
  /\ effectPending = TRUE
  /\ pendingSubmits = 0
  /\ lastEvent = NoEvent
  /\ stableSchema = FormSchema
  /\ trial = NoTrial

\* dispatch(action) of a mounted form.
Dispatch(action) ==
  /\ state' = reducer(state, action)
  /\ effectPending' = (effectPending \/ DepsChanged(state, state'))

\* The body of the validation effect.
RunValidation ==
  /\ state' = reducer(state, [type |-> "set_errors",
                              payload |-> FoldToErrors(validate(stableSchema, state.values.data))])
  /\ effectPending' = FALSE

\* The passive effects of the first commit: the validation effect and the
\* effect of useSafeState that registers the teardown.
Mount ==
  /\ phase = "rendered"
  /\ RunValidation
  /\ phase' = "mounted"
  /\ UNCHANGED <<isSubmitting, cancelRef, pendingSubmits, lastEvent, stableSchema, trial>>

ValidationEffect ==
  /\ phase = "mounted"
  /\ effectPending
  /\ RunValidation
  /\ UNCHANGED <<isSubmitting, cancelRef, phase, pendingSubmits, lastEvent, stableSchema, trial>>

\* Objects a caller can pass where a values record is expected: the one the
\* form holds, the initialValues object, or a new one.
Payloads ==
  {state.values}
    \cup {Object(0, InitialValues)}
    \cup {Object(FreshRef(state.values.ref), d) : d \in Records}

SetValues(v) ==
  /\ phase = "mounted"
  /\ Dispatch([type |-> "set_values", payload |-> v])
  /\ UNCHANGED <<isSubmitting, cancelRef, phase, pendingSubmits, lastEvent, stableSchema, trial>>

SetErrors(e) ==
  /\ phase = "mounted"
  /\ Dispatch([type |-> "set_errors", payload |-> e])
  /\ UNCHANGED <<isSubmitting, cancelRef, phase, pendingSubmits, lastEvent, stableSchema, trial>>

\* Mutant of HandleFieldChange: while the submitting flag is set the change
\* is recorded as a visit but its value is not stored.
HandleFieldChangeFrozen(target) ==
  /\ phase = "mounted"
  /\ IF isSubmitting
       THEN /\ state' = [state EXCEPT !.visited = (target.name :> Bool(TRUE)) @@ state.visited]
            /\ UNCHANGED effectPending
       ELSE Dispatch([type |-> "handle_change", payload |-> target])
  /\ UNCHANGED <<isSubmitting, cancelRef, phase, pendingSubmits, lastEvent, stableSchema, trial>>

HandleFieldChange(target) ==
  /\ phase = "mounted"
  /\ Dispatch([type |-> "handle_change", payload |-> target])
  /\ UNCHANGED <<isSubmitting, cancelRef, phase, pendingSubmits, lastEvent, stableSchema, trial>>

\* reset(values): setIsSubmitting(false), then the reset action.
ResetWith(v) ==
  /\ phase = "mounted"
  /\ isSubmitting' = safeSetState(isSubmitting, cancelRef, FALSE)
  /\ Dispatch([type |-> "reset", payload |-> v])
  /\ UNCHANGED <<cancelRef, phase, pendingSubmits, lastEvent, stableSchema, trial>>

\* reset(): the argument defaults to initialValues.
Reset(isThunk) ==
  ResetWith(Evaluate(InitialValues, isThunk, state.values.ref))

\* reset(r) with an explicit record.
ResetTo(r) == ResetWith(r)

\* How the promise returned by onSubmit can settle.
Outcomes == {"resolved", "rejected"}

\* A promise p.finally(f) settles as p does.
finally(outcome) == outcome

\* Mutant of HandleSubmit: the errors mapping is not consulted.
HandleSubmitUnguarded(args) ==
  /\ phase = "mounted"
  /\ pendingSubmits < MaxPending
  /\ lastEvent' = Called(state.values.data, args, safeSetState(isSubmitting, cancelRef, TRUE))
  /\ pendingSubmits' = pendingSubmits + 1
  /\ isSubmitting' = safeSetState(isSubmitting, cancelRef, TRUE)
  /\ UNCHANGED <<state, cancelRef, phase, effectPending, stableSchema, trial>>

\* Mutant of HandleSubmit: onSubmit(state.values) as in the first variant
\* of useForm, which drops the extra arguments.
HandleSubmitDropsArgs(args) ==
  /\ phase = "mounted"
  /\ LET marked == safeSetState(isSubmitting, cancelRef, TRUE) IN
       IF DOMAIN state.errors = {}
         THEN /\ pendingSubmits < MaxPending
              /\ lastEvent' = Called(state.values.data, <<>>, marked)
              /\ pendingSubmits' = pendingSubmits + 1
              /\ isSubmitting' = marked
         ELSE /\ isSubmitting' = safeSetState(marked, cancelRef, FALSE)
              /\ lastEvent' = Returned("null")
              /\ UNCHANGED pendingSubmits
  /\ UNCHANGED <<state, cancelRef, phase, effectPending, stableSchema, trial>>

\* Mutant of HandleSubmit: a call made while the submitting flag is set
\* returns null without calling onSubmit.
HandleSubmitWhenIdle(args) ==
  /\ phase = "mounted"
  /\ LET marked == safeSetState(isSubmitting, cancelRef, TRUE) IN
       IF isSubmitting
         THEN /\ lastEvent' = Returned("null")
              /\ UNCHANGED <<isSubmitting, pendingSubmits>>
         ELSE IF DOMAIN state.errors = {}
           THEN /\ pendingSubmits < MaxPending
                /\ lastEvent' = Called(state.values.data, args, marked)
                /\ pendingSubmits' = pendingSubmits + 1
                /\ isSubmitting' = marked
           ELSE /\ isSubmitting' = safeSetState(marked, cancelRef, FALSE)
                /\ lastEvent' = Returned("null")
                /\ UNCHANGED pendingSubmits
  /\ UNCHANGED <<state, cancelRef, phase, effectPending, stableSchema, trial>>

HandleSubmit(args) ==
  /\ phase = "mounted"
  /\ LET marked == safeSetState(isSubmitting, cancelRef, TRUE) IN
       IF DOMAIN state.errors = {}
         THEN /\ pendingSubmits < MaxPending
              /\ lastEvent' = Called(state.values.data, args, marked)
              /\ pendingSubmits' = pendingSubmits + 1
              /\ isSubmitting' = marked
         ELSE /\ isSubmitting' = safeSetState(marked, cancelRef, FALSE)
              /\ lastEvent' = Returned("null")
              /\ UNCHANGED pendingSubmits
  /\ UNCHANGED <<state, cancelRef, phase, effectPending, stableSchema, trial>>

\* Mutant of Settle: the flag is cleared with then, not finally, so a
\* rejection leaves it set.
SettleThen(outcome) ==
  /\ pendingSubmits > 0
  /\ pendingSubmits' = pendingSubmits - 1
  /\ isSubmitting' = IF outcome = "resolved"
                       THEN safeSetState(isSubmitting, cancelRef, FALSE)
                       ELSE isSubmitting
  /\ lastEvent' = Returned(outcome)
  /\ UNCHANGED <<state, cancelRef, phase, effectPending, stableSchema, trial>>

\* A pending onSubmit promise settles; the finally callback runs.
\* Mutant of Settle: when the action resolves the form is reset to the
\* values it holds.
SettleAndReset(outcome) ==
  /\ pendingSubmits > 0
  /\ pendingSubmits' = pendingSubmits - 1
  /\ isSubmitting' = safeSetState(isSubmitting, cancelRef, FALSE)
  /\ lastEvent' = Returned(finally(outcome))
  /\ state' = IF outcome = "resolved" /\ ~cancelRef
                THEN reducer(state, [type |-> "reset", payload |-> state.values])
                ELSE state
  /\ UNCHANGED <<cancelRef, phase, effectPending, stableSchema, trial>>

Settle(outcome) ==
  /\ pendingSubmits > 0
  /\ pendingSubmits' = pendingSubmits - 1
  /\ isSubmitting' = safeSetState(isSubmitting, cancelRef, FALSE)
  /\ lastEvent' = Returned(finally(outcome))
  /\ UNCHANGED <<state, cancelRef, phase, effectPending, stableSchema, trial>>

\* The component unmounts: the cleanup of useSafeState runs.
Unmount ==
  /\ phase = "mounted"
  /\ cancelRef' = TRUE
  /\ phase' = "unmounted"
  /\ UNCHANGED <<state, isSubmitting, effectPending, pendingSubmits, lastEvent, stableSchema, trial>>

Next ==
  \/ Mount
  \/ ValidationEffect
  \/ \E isThunk \in BOOLEAN : Reset(isThunk)
  \/ \E r \in Payloads : ResetTo(r)
  \/ \E v \in Payloads : SetValues(v)
  \/ \E e \in ErrorMappings : SetErrors(e)
  \/ \E target \in Targets : HandleFieldChange(target)
  \/ \E args \in ExtraArgs : HandleSubmit(args)
  \/ \E outcome \in Outcomes : Settle(outcome)
  \/ Unmount

Spec == Init /\ [][Next]_vars

\* The form driven by setValues and handleFieldChange alone.
NextEdits ==
  \/ Mount
  \/ ValidationEffect
  \/ \E v \in Payloads : SetValues(v)
  \/ \E target \in Targets : HandleFieldChange(target)

SpecEdits == Init /\ [][NextEdits]_vars

\* The form used without setErrors.
NextValidated ==
  \/ Mount
  \/ ValidationEffect
  \/ \E isThunk \in BOOLEAN : Reset(isThunk)
  \/ \E r \in Payloads : ResetTo(r)
  \/ \E v \in Payloads : SetValues(v)
  \/ \E target \in Targets : HandleFieldChange(target)
  \/ \E args \in ExtraArgs : HandleSubmit(args)
  \/ \E outcome \in Outcomes : Settle(outcome)

SpecValidated == Init /\ [][NextValidated]_vars

\* The form driven by field changes, the one named 'override' among them,
\* and resets.
NextVisits ==
  \/ Mount
  \/ ValidationEffect
  \/ \E target \in VisitTargets : HandleFieldChange(target)
  \/ \E isThunk \in BOOLEAN : Reset(isThunk)

SpecVisits == Init /\ [][NextVisits]_vars

\* The form with a repeated password, driven by field changes.
InitPasswords ==
  /\ \E isThunk \in BOOLEAN : state = getFormState(PasswordValues, isThunk)
  /\ isSubmitting = FALSE
  /\ cancelRef = FALSE
  /\ phase = "rendered"
  /\ effectPending = TRUE
  /\ pendingSubmits = 0
  /\ lastEvent = NoEvent
  /\ stableSchema = PasswordSchema
  /\ trial = NoTrial

NextPasswords ==
  \/ Mount
  \/ ValidationEffect
  \/ \E target \in PasswordTargets : HandleFieldChange(target)

SpecPasswords == InitPasswords /\ [][NextPasswords]_vars

(***************************************************************************)
(* Direct calls of the validation engine (validate, the concat of outcomes *)
(* and the runner of a rule are exported).  A trial is one call: Init      *)
(* draws its arguments, the Call action makes it and stores the result.    *)
(***************************************************************************)
\* Longest rule list of a schema field in a trial.
MaxRules == 2

\* Largest length bound given to maxChars and minChars in a trial.
MaxBound == 3

\* The call has not been made yet.
NotRun == [made |-> FALSE]

\* Rules a schema of a trial lists.
TrialRules ==
  {isPresent(NoMessage), minChars(2, NoMessage), maxChars(2, <<"too long">>),
   equals("b", NoMessage)}

\* The rule lists of at most n rules, repetitions included.
RuleLists(n) == UNION {[1..len -> TrialRules] : len \in 0..n}

\* Schemas of a trial: field a alone, or fields a and b in that order.
TrialSchemas ==
  {<< <<"a", la>> >> : la \in RuleLists(MaxRules)}
    \cup {<< <<"a", la>>, <<"b", lb>> >> :
            la \in RuleLists(MaxRules), lb \in RuleLists(1)}

\* obj with obj[key] = v, and obj itself when v is undefined (key missing).
With(obj, key, v) == IF v = Undefined THEN obj ELSE (key :> v) @@ obj

\* Records of a trial: a and b may be missing, c is a key no schema has.
TrialRecords ==
  {With(With(With(EmptyObject, "a", va), "b", vb), "c", vc) :
     va \in {Undefined, Bool(TRUE)} \cup {Str(Chars(n)) : n \in 0..MaxNameLen},
     vb \in {Undefined, Str(Chars(1))},
     vc \in {Undefined, Num(0)}}

\* Failure mappings and outcomes the concat of a trial is applied to.
TrialFailures ==
  {"k" :> << <<"m1">> >>,
   "k" :> << <<"m2">> >>,
   "k" :> << <<"m2">>, <<"m3">> >>,
   "j" :> << <<"m1">> >>,
   ("k" :> << <<"m3">> >>) @@ ("j" :> << <<"m2">> >>)}

TrialOutcomes ==
  {Success(EmptyObject), Success("a" :> Num(0))}
    \cup {Fail(m) : m \in TrialFailures}

ValidateTrials ==
  {[op |-> "validate", schema |-> schema, obj |-> obj, result |-> NotRun] :
     schema \in TrialSchemas, obj \in TrialRecords}

ConcatTrials ==
  {[op |-> "concat", a |-> a, b |-> b, c |-> c, result |-> NotRun] :
     a \in TrialOutcomes, b \in TrialOutcomes, c \in TrialOutcomes}

\* maxChars(bound) and minChars(bound) run on a string of up to one
\* character more than the largest bound.
LengthTrials ==
  {[op |-> "length", bound |-> n, text |-> Str(Chars(len)), result |-> NotRun] :
     n \in 0..MaxBound, len \in 0..(MaxBound + 1)}

\* One rule run on one value: each rule with its default message and with a
\* custom one, on values of every type; the strings include one that passes
\* and one that fails each string rule, the numbers likewise.
RuleTrialRules ==
  UNION {{pattern("^a+$", m), isEmail(m), maxChars(2, m), minChars(2, m),
          minVal(1, m), maxVal(1, m)} : m \in {NoMessage, <<"custom">>}}

RuleTrialValues ==
  {Undefined, Bool(TRUE), Bool(FALSE), Obj(1), Num(0), Num(1), Num(2),
   Str(<<>>), Str(Chars(1)), Str(Chars(3)),
   Str(<<"a", "@", "a">>), Str(<<"a", "@", "a", ".", "a", "a">>)}

RuleTrials ==
  {[op |-> "rule", rule |-> rule, x |-> x, result |-> NotRun] :
     rule \in RuleTrialRules, x \in RuleTrialValues}

\* Every built-in constructor called without an error message, with the
\* parameters it cannot do without.
DefaultRules ==
  {isPresent(NoMessage), pattern("^a+$", NoMessage), isEmail(NoMessage),
   isTrue(NoMessage), maxChars(2, NoMessage), minChars(2, NoMessage),
   minVal(1, NoMessage), maxVal(1, NoMessage), equals("name", NoMessage)}

\* Field names a rule is run for.  Neither is part of the fixed text of a
\* default message.
DefaultKeys == {"name", "tos"}

\* One default-message rule run for one field name on one value, the record
\* being the one that holds the value under that name.
DefaultTrials ==
  {[op |-> "default", rule |-> rule, key |-> key, x |-> x, result |-> NotRun] :
     rule \in DefaultRules, key \in DefaultKeys, x \in RuleTrialValues}

\* The rule lists of a schema field made of what the constructors return:
\* each returned value alone, or together with others.
ListedRules == UNION {[1..len -> DefaultRules] : len \in 1..MaxRules}

\* validate of a schema that lists such values for the field name, on the
\* record that holds one value under that name.
ListedTrials ==
  {[op |-> "listed", rules |-> rules, x |-> x, result |-> NotRun] :
     rules \in ListedRules, x \in RuleTrialValues}

\* No form is rendered while the engine is called directly.
NoForm ==
  /\ state = getFormState(InitialValues, FALSE)
  /\ isSubmitting = FALSE
  /\ cancelRef = FALSE
  /\ phase = "absent"
  /\ effectPending = FALSE
  /\ pendingSubmits = 0
  /\ lastEvent = NoEvent
  /\ stableSchema = FormSchema

InitEngine ==
  /\ NoForm
  /\ trial \in ValidateTrials \cup ConcatTrials \cup LengthTrials \cup RuleTrials
                 \cup DefaultTrials \cup ListedTrials

\* validate(schema, obj)
CallValidate ==
  /\ trial.op = "validate"
  /\ trial.result = NotRun
  /\ trial' = [trial EXCEPT !.result = validate(trial.schema, trial.obj)]
  /\ UNCHANGED <<state, isSubmitting, cancelRef, phase, effectPending,
                 pendingSubmits, lastEvent, stableSchema>>

\* The concat of outcomes, in the combinations the monoid laws are about.
CallConcat ==
  /\ trial.op = "concat"
  /\ trial.result = NotRun
  /\ trial' = [trial EXCEPT !.result =
       [ab |-> ResultConcat(trial.a, trial.b),
        left |-> ResultConcat(ResultConcat(trial.a, trial.b), trial.c),
        right |-> ResultConcat(trial.a, ResultConcat(trial.b, trial.c)),
        unitLeft |-> ResultConcat(Success(EmptyObject), trial.a),
        unitRight |-> ResultConcat(trial.a, Success(EmptyObject))]]
  /\ UNCHANGED <<state, isSubmitting, cancelRef, phase, effectPending,
                 pendingSubmits, lastEvent, stableSchema>>

\* maxChars(bound).run(key, text) and minChars(bound).run(key, text)
CallLength ==
  /\ trial.op = "length"
  /\ trial.result = NotRun
  /\ trial' = [trial EXCEPT !.result =
       [max |-> Run(maxChars(trial.bound, NoMessage), "a", trial.text, EmptyObject),
        min |-> Run(minChars(trial.bound, NoMessage), "a", trial.text, EmptyObject)]]
  /\ UNCHANGED <<state, isSubmitting, cancelRef, phase, effectPending,
                 pendingSubmits, lastEvent, stableSchema>>

\* rule.run(key, x), and pattern(re, errorMessage)(key, x)
CallRule ==
  /\ trial.op = "rule"
  /\ trial.result = NotRun
  /\ trial' = [trial EXCEPT !.result = Run(trial.rule, "a", trial.x, EmptyObject)]
  /\ UNCHANGED <<state, isSubmitting, cancelRef, phase, effectPending,
                 pendingSubmits, lastEvent, stableSchema>>

\* rule.run(key, x, meta) of a rule built without an error message, and
\* pattern(re)(key, x, meta)
CallDefault ==
  /\ trial.op = "default"
  /\ trial.result = NotRun
  /\ trial' = [trial EXCEPT !.result =
       Run(trial.rule, trial.key, trial.x, With(EmptyObject, trial.key, trial.x))]
  /\ UNCHANGED <<state, isSubmitting, cancelRef, phase, effectPending,
                 pendingSubmits, lastEvent, stableSchema>>

\* validate({name: rules}, {name: x})
CallListed ==
  /\ trial.op = "listed"
  /\ trial.result = NotRun
  /\ trial' = [trial EXCEPT !.result =
       validate(<< <<"name", trial.rules>> >>, With(EmptyObject, "name", trial.x))]
  /\ UNCHANGED <<state, isSubmitting, cancelRef, phase, effectPending,
                 pendingSubmits, lastEvent, stableSchema>>

NextEngine ==
  \/ CallValidate
  \/ CallConcat
  \/ CallLength
  \/ CallRule
  \/ CallDefault
  \/ CallListed

SpecEngine == InitEngine /\ [][NextEngine]_vars

(***************************************************************************)
(* Properties                                                              *)
(***************************************************************************)
\* The errors mapping validation gives for a values record: the failure
\* mapping, or the empty mapping when validation succeeds.
Derived(data) ==
  LET result == validate(FormSchema, data)
  IN IF result.isFail THEN result.x ELSE EmptyObject

Settled == phase = "mounted" /\ ~effectPending

\* C1: under setValues and handleFieldChange alone, whenever no validation
\* effect is outstanding, errors is exactly the failure mapping of
\* validate(schema, values), and the empty mapping when validation succeeds.
C1_ReactiveValidation ==
  Settled => state.errors = Derived(state.values.data)

\* C1 witness: after a change to name, validation has run and only the tos
\* entry is left of the initial errors.
C1_Witness ==
  /\ Settled
  /\ "name" \in DOMAIN state.visited
  /\ DOMAIN state.errors = {"tos"}

\* What the test 'Form initializes correctly' calls initialErrors, for the
\* blank record under FormSchema.
InitialErrors ==
  ("name" :> << <<"name", " is not present">>,
                <<"name", " has to be greater than ", "2", " chars">> >>)
    @@ ("tos" :> << <<"tos", " must be set">> >>)

\* The state the caller sees once the passive effects of the first commit
\* have run.
FirstObserved ==
  /\ state.values.data = InitialValues
  /\ state.visited = EmptyObject
  /\ ~isSubmitting
  /\ state.errors = InitialErrors
  /\ DOMAIN state.errors = SchemaKeys(FormSchema)
  /\ (DOMAIN state.errors # {} => \A o \in BOOLEAN : isDisabled(o))

\* C2: the state a caller observes after creating the form (the first
\* commit with its effects run) has the initial values, nothing visited,
\* submitting false, and the errors of every schema field for the initial
\* values; they are non-empty, so isDisabled is true.
C2_InitialState ==
  [][(phase = "rendered" /\ phase' = "mounted") => FirstObserved']_vars

\* C2 witness: the mounted form before any command, with the errors of both
\* schema fields although neither was visited.
C2_Witness ==
  /\ phase = "mounted"
  /\ state.values = Object(0, InitialValues)
  /\ state.visited = EmptyObject
  /\ DOMAIN state.errors = {"name", "tos"}
  /\ state.hasErrors
  /\ lastEvent = NoEvent

\* A reset step: reset() or reset(r).
IsReset ==
  \/ \E isThunk \in BOOLEAN : Reset(isThunk)
  \/ \E r \in Payloads : ResetTo(r)

\* C3 (as claimed): once a reset has been applied and no validation is
\* outstanding, visited is empty and errors is the validation result of the
\* reset-to values, also when the reset-to record is the one the form holds.
C3_ResetRederivesErrors ==
  [][(IsReset /\ Settled') =>
       /\ state'.visited = EmptyObject
       /\ state'.errors = Derived(state'.values.data)]_vars

\* C4: a step from a state with a non-empty errors mapping never calls
\* onSubmit, and a handleSubmit call made there returns null and leaves
\* submitting false.
C4_SubmitRefusal ==
  [][(DOMAIN state.errors # {}) =>
       /\ pendingSubmits' <= pendingSubmits
       /\ (lastEvent'.kind = "called" => lastEvent' = lastEvent)
       /\ \A args \in ExtraArgs :
            HandleSubmit(args) => (lastEvent' = Returned("null") /\ ~isSubmitting')]_vars

\* C4 witness: handleSubmit has returned null on a form with errors.
C4_Witness ==
  /\ lastEvent = Returned("null")
  /\ DOMAIN state.errors # {}
  /\ ~isSubmitting
  /\ pendingSubmits = 0

\* C5: a handleSubmit call made while errors is empty calls onSubmit once,
\* with the current values followed by the extra arguments, the submitting
\* flag being set when the call is made.
C5_SubmitInvocation ==
  [][\A args \in ExtraArgs :
       (HandleSubmit(args) /\ DOMAIN state.errors = {}) =>
         /\ pendingSubmits' = pendingSubmits + 1
         /\ lastEvent' = Called(state.values.data, args, TRUE)
         /\ isSubmitting']_vars

\* C5 witness: onSubmit was called with the filled record and an extra
\* argument, and the form is submitting.
C5_Witness ==
  /\ lastEvent = Called(FilledValues, <<"extra">>, TRUE)
  /\ pendingSubmits = 1
  /\ isSubmitting

\* C6: when a pending action settles in a live session, resolved or
\* rejected, submitting is false afterwards and the caller of handleSubmit
\* gets that same settlement.
C6_SubmitSettlement ==
  [][\A outcome \in Outcomes :
       (Settle(outcome) /\ ~cancelRef) =>
         (~isSubmitting' /\ lastEvent' = Returned(outcome))]_vars

\* C6 witness: the only pending action was rejected in a live session and
\* the form is not submitting.
C6_Witness ==
  /\ lastEvent = Returned("rejected")
  /\ phase = "mounted"
  /\ pendingSubmits = 0
  /\ ~isSubmitting

\* C7: isDisabled is submitting OR disabledOverride OR hasErrors: true
\* whenever hasErrors, true while submitting, true under the override, and
\* false when all three are false.
C7_DisabledDerivation ==
  /\ state.hasErrors => isDisabled(FALSE)
  /\ isSubmitting => isDisabled(FALSE)
  /\ isDisabled(TRUE)
  /\ (~state.hasErrors /\ ~isSubmitting) => ~isDisabled(FALSE)

\* C7 witness: submitting with zero errors, hence disabled.
C7_Witness ==
  /\ isSubmitting
  /\ ~state.hasErrors
  /\ DOMAIN state.errors = {}
  /\ isDisabled(FALSE)

Cleared ==
  /\ state.visited = EmptyObject
  /\ state.errors = EmptyObject
  /\ ~state.hasErrors

\* C8: reset(r) replaces values with r and reset() with the initial values
\* (a thunk being evaluated anew), and the same transition empties visited
\* and errors and sets hasErrors false.
C8_ResetCommand ==
  [][/\ \A r \in Payloads : ResetTo(r) => (state'.values = r /\ Cleared')
     /\ \A isThunk \in BOOLEAN :
          Reset(isThunk) =>
            /\ state'.values.data = InitialValues
            /\ (isThunk => state'.values.ref \notin {0, state.values.ref})
            /\ (~isThunk => state'.values.ref = 0)
            /\ Cleared']_vars

\* C8 witness: a reset to the initial values after the filled record was
\* submitted: nothing visited, no errors, and submitting cleared although
\* the action is pending.
C8_Witness ==
  /\ lastEvent.kind = "called"
  /\ lastEvent.values = FilledValues
  /\ state.values.data = InitialValues
  /\ Cleared
  /\ ~isSubmitting

\* C9: a field change stores checked for a checkbox and value otherwise
\* under values[name], sets visited[name], and leaves every other entry of
\* values and visited, errors and hasErrors as they were.
C9_ApplyFieldChange ==
  [][\A target \in Targets :
       HandleFieldChange(target) =>
         LET old == state.values.data
             new == state'.values.data
             name == target.name
         IN /\ DOMAIN new = DOMAIN old \cup {name}
            /\ new[name] = IF target.type = "checkbox" THEN target.checked
                                                       ELSE target.value
            /\ \A k \in DOMAIN old \ {name} : new[k] = old[k]
            /\ DOMAIN state'.visited = DOMAIN state.visited \cup {name}
            /\ state'.visited[name] = Bool(TRUE)
            /\ \A k \in DOMAIN state.visited \ {name} :
                 state'.visited[k] = state.visited[k]
            /\ state'.errors = state.errors
            /\ state'.hasErrors = state.hasErrors]_vars

\* C9 witness: the checkbox and the date picker have been changed and the
\* tos error of the earlier values is still there.
C9_Witness ==
  /\ Get(state.values.data, "todaysDate") = Obj(1)
  /\ state.values.data["tos"] = Bool(TRUE)
  /\ DOMAIN state.visited = {"tos", "todaysDate"}
  /\ "tos" \in DOMAIN state.errors
  /\ effectPending

\* C10: hasErrors is true exactly when the errors mapping has a key.
C10_HasErrors ==
  state.hasErrors <=> (DOMAIN state.errors # {})

\* C10 witness: a reset has emptied the errors of an invalid record, and
\* hasErrors is false.
C10_Witness ==
  /\ phase = "mounted"
  /\ validate(FormSchema, state.values.data).isFail
  /\ DOMAIN state.errors = {}
  /\ ~state.hasErrors
  /\ ~effectPending

\* A command that writes the errors mapping itself: setErrors or a reset.
WritesErrors ==
  \/ IsReset
  \/ \E e \in ErrorMappings : SetErrors(e)

ValidateMade == trial.op = "validate" /\ trial.result # NotRun

\* Every field of the schema lists at least one rule.
NoEmptyList(schema) == \A i \in 1..Len(schema) : Len(schema[i][2]) > 0

\* The messages of the failing rules among rules[i..], in rule-list order.
RECURSIVE MessagesInOrder(_, _, _, _, _)
MessagesInOrder(rules, i, key, x, meta) ==
  IF i > Len(rules) THEN <<>>
  ELSE LET r == Run(rules[i], key, x, meta)
       IN (IF r.isFail THEN r.x[key] ELSE <<>>)
            \o MessagesInOrder(rules, i + 1, key, x, meta)

\* Field by field, the messages of the failing rules in rule-list order;
\* a field whose rules all pass has no entry.
ExpectedErrors(schema, obj) ==
  LET msgs(i) == MessagesInOrder(schema[i][2], 1, schema[i][1],
                                 Get(obj, schema[i][1]), obj)
      failing == {i \in 1..Len(schema) : msgs(i) # <<>>}
  IN [key \in {schema[i][1] : i \in failing} |->
        msgs(CHOOSE i \in failing : schema[i][1] = key)]

\* C12: for a schema whose fields each list at least one rule, validate
\* fails exactly when some rule of some field fails, and the message list
\* of a field is the concatenation of the messages of its failing rules in
\* rule-list order, repetitions kept; a field whose rules all pass has no
\* entry.
C12_RuleOrdering ==
  (ValidateMade /\ NoEmptyList(trial.schema)) =>
    LET expected == ExpectedErrors(trial.schema, trial.obj)
    IN IF DOMAIN expected = {}
         THEN ~Threw(trial.result) /\ ~trial.result.isFail
         ELSE /\ ~Threw(trial.result)
              /\ trial.result.isFail
              /\ trial.result.x = expected

\* C12 witness: a is '' under [isPresent(), minChars(2)]: both rules fail
\* and the list has the message of isPresent, then that of minChars.
C12_Witness ==
  /\ ValidateMade
  /\ trial.schema = << <<"a", <<isPresent(NoMessage), minChars(2, NoMessage)>> >> >>
  /\ trial.obj = ("a" :> Str(<<>>))
  /\ trial.result.isFail
  /\ trial.result.x["a"] =
       << <<"a", " is not present">>,
          <<"a", " has to be greater than ", "2", " chars">> >>

\* The outcomes of a concat trial have been combined.
ConcatMade == trial.op = "concat" /\ trial.result # NotRun

\* C13 (as claimed): for failures Fail(m1) and Fail(m2),
\* Fail(m1).concat(Fail(m2)) is a failure over the union of the keys of m1
\* and m2 that has, under every key of both, the messages of m1 followed by
\* the messages of m2.
C13_FailureMergeOrder ==
  (ConcatMade /\ trial.a.isFail /\ trial.b.isFail) =>
    LET m1 == trial.a.x
        m2 == trial.b.x
        merged == trial.result.ab
    IN /\ merged.isFail
       /\ DOMAIN merged.x = DOMAIN m1 \cup DOMAIN m2
       /\ \A key \in DOMAIN m1 \cap DOMAIN m2 :
            merged.x[key] = m1[key] \o m2[key]

\* The same pass/fail tag and, for failures, the same failure mapping:
\* the same keys with the same messages in the same order.
SameOutcome(r1, r2) ==
  /\ r1.isFail = r2.isFail
  /\ r1.isFail => r1.x = r2.x

\* C14: for all outcomes a, b, c, a.concat(b).concat(c) and
\* a.concat(b.concat(c)) have the same tag and failure mapping;
\* Success.concat(a) and a.concat(Success) have the tag and failure mapping
\* of a; and a concat with a failure on either side is a failure.
C14_MonoidLaws ==
  ConcatMade =>
    /\ SameOutcome(trial.result.left, trial.result.right)
    /\ SameOutcome(trial.result.unitLeft, trial.a)
    /\ SameOutcome(trial.result.unitRight, trial.a)
    /\ (trial.a.isFail \/ trial.b.isFail) => trial.result.ab.isFail
    /\ (~trial.a.isFail /\ ~trial.b.isFail) => ~trial.result.ab.isFail

\* C14 witness: three failures sharing the key k were combined, and both
\* groupings hold the four messages of k.
C14_Witness ==
  /\ ConcatMade
  /\ trial.a = Fail("k" :> << <<"m1">> >>)
  /\ trial.b = Fail("k" :> << <<"m2">>, <<"m3">> >>)
  /\ trial.c = Fail(("k" :> << <<"m3">> >>) @@ ("j" :> << <<"m2">> >>))
  /\ Len(trial.result.left.x["k"]) = 4
  /\ trial.result.right.x = trial.result.left.x
  /\ DOMAIN trial.result.left.x = {"k", "j"}

\* C15: every key of the failure mapping validate returns is a key of the
\* schema: a key of the record that the schema does not declare gets no
\* entry, whatever it holds.
C15_FieldIsolation ==
  (ValidateMade /\ ~Threw(trial.result) /\ trial.result.isFail) =>
    /\ DOMAIN trial.result.x \subseteq SchemaKeys(trial.schema)
    /\ \A key \in DOMAIN trial.obj \ SchemaKeys(trial.schema) :
         key \notin DOMAIN trial.result.x

\* C15 witness: a schema of field a alone has rejected a record that also
\* holds b and c; the failure mapping has the entry of a and no other.
C15_Witness ==
  /\ ValidateMade
  /\ SchemaKeys(trial.schema) = {"a"}
  /\ DOMAIN trial.obj = {"a", "b", "c"}
  /\ ~Threw(trial.result)
  /\ trial.result.isFail
  /\ DOMAIN trial.result.x = {"a"}

\* C16 (as claimed): validate returns an outcome and never throws, also
\* for a record that lacks a declared field and for a schema with an empty
\* rule list, and a field with an empty rule list gets no error entry.
C16_Totality ==
  ValidateMade =>
    /\ ~Threw(trial.result)
    /\ \A i \in 1..Len(trial.schema) :
         Len(trial.schema[i][2]) = 0 =>
           trial.schema[i][1] \notin DOMAIN FoldToErrors(trial.result)

\* C18: on a string, maxChars(n) passes exactly when the length is less
\* than n (length n fails) and minChars(n) passes exactly when the length is
\* at least n (length n passes).
C18_LengthBoundaries ==
  (trial.op = "length" /\ trial.result # NotRun) =>
    /\ ~trial.result.max.isFail <=> Len(trial.text.val) < trial.bound
    /\ ~trial.result.min.isFail <=> Len(trial.text.val) >= trial.bound

\* C18 witness: on a string of three characters maxChars(3) has failed and
\* minChars(3) has passed.
C18_Witness ==
  /\ trial.op = "length"
  /\ trial.result # NotRun
  /\ trial.bound = 3
  /\ Len(trial.text.val) = 3
  /\ trial.result.max = FailWith("a", <<"a", " has to be shorter than ", "3", " chars">>)
  /\ trial.result.min = Success(EmptyObject)

(***************************************************************************)
(* Properties of the form, continued                                       *)
(***************************************************************************)
\* C17: under the schema with password2: [equals('password')], whenever no
\* validation is outstanding, errors has a non-empty password2 entry
\* exactly when values.password2 is not the value values.password holds.
C17_LiveEquality ==
  (Settled /\ stableSchema = PasswordSchema) =>
    (("password2" \in DOMAIN state.errors /\ state.errors["password2"] # <<>>)
       <=> state.values.data["password2"] # state.values.data["password"])

\* C17 witness: only password was changed, and that created the entry of
\* password2.
C17_Witness ==
  /\ Settled
  /\ stableSchema = PasswordSchema
  /\ DOMAIN state.visited = {"password"}
  /\ state.values.data["password2"] = Str(<<>>)
  /\ state.values.data["password"] = Str(Chars(1))
  /\ state.errors = ("password2" :> << <<"password", " does not match">> >>)

\* C19: once the component is unmounted no step changes the submitting
\* flag or the form state, the settlement of a pending action included,
\* which still reaches the caller of handleSubmit; while the component is
\* mounted a settlement clears the flag.
C19_LateWriteSuppression ==
  [][/\ cancelRef => (isSubmitting' = isSubmitting /\ state' = state)
     /\ \A outcome \in Outcomes :
          Settle(outcome) =>
            /\ lastEvent' = Returned(outcome)
            /\ ~cancelRef => ~isSubmitting']_vars

\* C19 witness: the component was unmounted while submitting, the pending
\* action has settled since, and the flag is still set.
C19_Witness ==
  /\ phase = "unmounted"
  /\ cancelRef
  /\ pendingSubmits = 0
  /\ lastEvent.kind \in Outcomes
  /\ isSubmitting

\* Field names a caller asks about: those of the targets and one that no
\* target has.
FieldNames == {target.name : target \in VisitTargets} \cup {"email"}

\* isFieldVisited(f) is truthy exactly when visited holds true under
\* 'override' or under f.
VisitedQuery ==
  \A f \in FieldNames :
    isFieldVisited(f) <=>
      (Get(state.visited, "override") = Bool(TRUE) \/ Get(state.visited, f) = Bool(TRUE))

NoneVisited == \A f \in FieldNames : ~isFieldVisited(f)

\* C20: in every state isFieldVisited(f) is truthy exactly when visited
\* holds true under 'override' or under f; it is falsy for every field in
\* the state the form is created in, after its first commit and after a
\* reset, and truthy for f after a field change to f.
C20_FieldVisited ==
  /\ [](VisitedQuery /\ (phase = "rendered" => NoneVisited))
  /\ [][/\ (Mount \/ IsReset) => NoneVisited'
        /\ \A target \in VisitTargets :
             HandleFieldChange(target) => isFieldVisited(target.name)']_vars

\* C20 witness: the only change was to the target named 'override', and
\* the fields name and tos, never changed, count as visited.
C20_Witness ==
  /\ phase = "mounted"
  /\ DOMAIN state.visited = {"override"}
  /\ isFieldVisited("name")
  /\ isFieldVisited("tos")

\* C21 (as claimed): in every state, after any sequence of setValues,
\* setErrors, handleFieldChange and reset commands, every key of the errors
\* mapping is a key of the active schema.
C21_ErrorKeysInSchema ==
  DOMAIN state.errors \subseteq SchemaKeys(stableSchema)

\* Every field name that maps to true in visited still does after the step.
VisitedKept ==
  \A name \in DOMAIN state.visited :
    state.visited[name] = Bool(TRUE) => Get(state'.visited, name) = Bool(TRUE)

\* C22: every step other than a reset (setValues, setErrors,
\* handleFieldChange, handleSubmit, the settlement of a submit action, the
\* validation effect, the unmount) keeps every name that maps to true in
\* visited: a step that removes one is a reset.
C22_VisitedMonotone ==
  [][VisitedKept \/ IsReset]_vars

\* C22 witness: name and tos were changed, then the values were replaced by
\* the blank record, errors were set and a submit was refused; both names
\* are still visited.
C22_Witness ==
  /\ DOMAIN state.visited = {"name", "tos"}
  /\ state.values.data = BlankValues
  /\ state.values.ref # 0
  /\ "server" \in DOMAIN state.errors
  /\ lastEvent = Returned("null")

\* C23 (as claimed): in every state of a live session in which a submit
\* action invoked by handleSubmit has not yet settled, submitting is true.
C23_SubmittingCoversPending ==
  (phase = "mounted" /\ pendingSubmits > 0) => isSubmitting

\* C24 (as claimed): when the caller never uses setErrors, a handleSubmit
\* call made with no validation outstanding invokes onSubmit only with a
\* values record that validate accepts, also after a reset to the record
\* the form holds.
C24_NoInvalidSubmit ==
  [][\A args \in ExtraArgs :
       (Settled /\ HandleSubmit(args) /\ pendingSubmits' > pendingSubmits) =>
         ~validate(stableSchema, state.values.data).isFail]_vars

\* C25: in every state of a mounted form whose errors mapping is empty, a
\* handleSubmit call invokes onSubmit with the current values and adds a
\* pending action, whether or not the submitting flag is already set; the
\* call reads neither the flag nor isDisabled, which is true under the
\* override whatever the rest.
C25_GuardOnlyErrors ==
  (phase = "mounted" /\ DOMAIN state.errors = {} /\ pendingSubmits < MaxPending) =>
    /\ isDisabled(TRUE)
    /\ \A args \in ExtraArgs :
         ENABLED (/\ HandleSubmit(args)
                  /\ lastEvent' = Called(state.values.data, args, TRUE)
                  /\ pendingSubmits' = pendingSubmits + 1)

\* C25 witness: a second handleSubmit call was made while the first action
\* was pending and the form disabled: two actions are pending.
C25_Witness ==
  /\ phase = "mounted"
  /\ pendingSubmits = 2
  /\ isSubmitting
  /\ isDisabled(FALSE)
  /\ lastEvent.kind = "called"
  /\ lastEvent.values = FilledValues

\* C26: a field change made while a submit action is pending stores the
\* value of the target under its name, whatever was stored there before,
\* keeps the other values, marks the name visited and schedules the
\* validation of the new values object, as it does with no action pending;
\* it changes neither the submitting flag nor the pending actions nor the
\* values record onSubmit was called with; and the validation that follows
\* gives the errors of the edited values.
C26_EditsDuringSubmit ==
  [][/\ \A target \in Targets :
          (pendingSubmits > 0 /\ HandleFieldChange(target)) =>
            /\ state'.values.data =
                 (target.name :> ChangedValue(target)) @@ state.values.data
            /\ state'.visited = (target.name :> Bool(TRUE)) @@ state.visited
            /\ state'.errors = state.errors
            /\ (state'.values # state.values) => effectPending'
            /\ isSubmitting' = isSubmitting
            /\ pendingSubmits' = pendingSubmits
            /\ lastEvent' = lastEvent
     /\ (pendingSubmits > 0 /\ ValidationEffect) =>
          /\ state'.errors = Derived(state.values.data)
          /\ state'.values = state.values
          /\ isSubmitting' = isSubmitting]_vars

\* C26 witness: the filled record was submitted; while the action is
\* pending, name was changed and tos unchecked, and validation ran: name
\* holds the text typed, errors are those of the edited values, and
\* the record handed to onSubmit and the submitting flag are as they were.
C26_Witness ==
  /\ pendingSubmits = 1
  /\ isSubmitting
  /\ lastEvent = Called(FilledValues, <<>>, TRUE)
  /\ state.values.data = [name |-> Str(Chars(1)), tos |-> Bool(FALSE)]
  /\ DOMAIN state.visited = {"name", "tos"}
  /\ Settled
  /\ DOMAIN state.errors = {"name", "tos"}

\* C27: a handleSubmit call, refused or not, and the settlement of a
\* submit action leave values, errors, visited and hasErrors as they were
\* and schedule no validation.
C27_SubmissionFrame ==
  [][(\/ \E args \in ExtraArgs : HandleSubmit(args)
      \/ \E outcome \in Outcomes : Settle(outcome)) =>
       /\ state'.values = state.values
       /\ state'.errors = state.errors
       /\ state'.visited = state.visited
       /\ state'.hasErrors = state.hasErrors
       /\ effectPending' = effectPending]_vars

\* C27 witness: the filled record, with both fields visited, was submitted
\* and the action resolved: the values, the visits and the empty errors are
\* still there.
C27_Witness ==
  /\ lastEvent = Returned("resolved")
  /\ pendingSubmits = 0
  /\ phase = "mounted"
  /\ state.values.data = FilledValues
  /\ DOMAIN state.visited = {"name", "tos"}
  /\ state.errors = EmptyObject
  /\ ~state.hasErrors
  /\ ~isSubmitting

\* C28: setValues(v) makes v the values and, in that step, leaves errors,
\* visited and hasErrors as they were; the step changes nothing else but to
\* schedule the validation when v is another object.
C28_ReplaceValuesFrame ==
  [][\A v \in Payloads :
       SetValues(v) =>
         /\ state'.values = v
         /\ state'.errors = state.errors
         /\ state'.visited = state.visited
         /\ state'.hasErrors = state.hasErrors
         /\ isSubmitting' = isSubmitting
         /\ (v # state.values) => effectPending']_vars

\* C28 witness: the filled record replaced the blank one and validation has
\* not run yet: the errors of the blank record are still there, and the
\* visit of tos too.
C28_Witness ==
  /\ state.values.data = FilledValues
  /\ effectPending
  /\ phase = "mounted"
  /\ state.errors = InitialErrors
  /\ state.hasErrors
  /\ DOMAIN state.visited = {"tos"}

\* C29: setErrors(e) makes errors exactly e and hasErrors whether e has a
\* key, leaves values, visited and the submitting flag as they were, and
\* schedules no validation.
C29_ReplaceErrors ==
  [][\A e \in ErrorMappings :
       SetErrors(e) =>
         /\ state'.errors = e
         /\ state'.hasErrors = (DOMAIN e # {})
         /\ state'.values = state.values
         /\ state'.visited = state.visited
         /\ isSubmitting' = isSubmitting
         /\ effectPending' = effectPending]_vars

\* C29 witness: a mapping with the key "server" was set on the record in
\* which only tos is checked: errors is that mapping, with no entry left of
\* the validation of name, hasErrors is true and no validation is scheduled.
C29_Witness ==
  /\ Settled
  /\ state.values.data = [name |-> Str(<<>>), tos |-> Bool(TRUE)]
  /\ state.errors = ("name" :> << <<"taken">> >>) @@ ("server" :> << <<"down">> >>)
  /\ state.hasErrors
  /\ DOMAIN state.visited = {"tos"}

\* The type of value a rule is made for.
ExpectedType(rule) ==
  IF rule.validator \in {"minVal", "maxVal"} THEN "number" ELSE "string"

\* The messages a rule gives on the values of the type it is made for.
ViolationMessages(rule) ==
  {Run(rule, "a", y, EmptyObject).x["a"] :
     y \in {v \in RuleTrialValues :
              /\ v.tag = ExpectedType(rule)
              /\ Run(rule, "a", v, EmptyObject).isFail}}

\* C30: pattern, isEmail, maxChars and minChars run on a value that is no
\* string, and minVal and maxVal on a value that is no number, return a
\* failure for the field, with the one message 'must be a string' or 'must
\* be a number', which is none of the messages the rule gives for a value
\* of the right type, also when the rule has a custom message.
C30_TypeMismatch ==
  (trial.op = "rule" /\ trial.result # NotRun
     /\ trial.x.tag # ExpectedType(trial.rule)) =>
    /\ ~Threw(trial.result)
    /\ trial.result.isFail
    /\ trial.result.x =
         ("a" :> << IF ExpectedType(trial.rule) = "number"
                      THEN <<"a", " must be a number">>
                      ELSE <<"a", " must be a string">> >>)
    /\ ViolationMessages(trial.rule) # {}
    /\ trial.result.x["a"] \notin ViolationMessages(trial.rule)

\* C30 witness: isEmail with a custom message was run on a number and has
\* failed with the message for a value that is no string.
C30_Witness ==
  /\ trial.op = "rule"
  /\ trial.rule = isEmail(<<"custom">>)
  /\ trial.x = Num(1)
  /\ trial.result # NotRun
  /\ trial.result.isFail
  /\ trial.result.x["a"] # << <<"custom">> >>

\* The name key is contained in a message when one of the pieces the
\* message is put together from is the name.
ContainsName(message, key) == \E i \in 1..Len(message) : message[i] = key

\* C31: every failure message of a built-in rule constructed without an
\* error message contains the name of the field the rule was run for.
C31_DefaultMessagesNameField ==
  (trial.op = "default" /\ trial.result # NotRun /\ trial.result.isFail) =>
    /\ DOMAIN trial.result.x = {trial.key}
    /\ \A i \in 1..Len(trial.result.x[trial.key]) :
         ContainsName(trial.result.x[trial.key][i], trial.key)

\* C32: validate of a schema whose rule list holds values returned by the
\* built-in constructors, alone or together, returns an outcome and does not
\* throw; with pattern(regex) alone in the list, the outcome is a failure
\* for a value that is no string or does not match, and a success for a
\* string that matches.
C32_ConstructorsReturnRules ==
  (trial.op = "listed" /\ trial.result # NotRun) =>
    /\ ~Threw(trial.result)
    /\ trial.rules = <<pattern("^a+$", NoMessage)>> =>
         (trial.result.isFail <=>
            (trial.x.tag # "string" \/ ~Test("^a+$", trial.x.val)))

=============================================================================
